---- MODULE Spec2Model ----
(***************************************************************************)
(* Career-choice Monte Carlo simulation of "exam project/exam.py"          *)
(* (class CareerChoice and the aggregators count / count2).                *)
(*                                                                         *)
(* Numbers.  The program computes in floating point; the model computes in *)
(* exact rationals <<numerator, denominator>> with a positive denominator, *)
(* compared by cross-multiplication.  A normal draw of scale s is s*z with *)
(* z taken from the finite set StdNormal.                                  *)
(*                                                                         *)
(* Five specifications share the variables:                                *)
(*   SpecCareer : one call of career(), with the lists over all N types;   *)
(*   SpecSim    : simulate() followed by count(), for the row of one type; *)
(*   SpecAlt    : career_alt(), sort_career() and count2(), for the row of *)
(*                one type, from the rows simulate() can return.           *)
(*   SpecSeed   : two runs, each __init__(seed) then simulate(), over all  *)
(*                types, with numpy's generator as a deterministic state;  *)
(*                here careerdict, EVdict, RVdict hold every type's row;   *)
(*   SpecMarket : ProductionEconomy.check_market_clearing.                 *)
(* The outer loops "for i in range(0, par.N)" of simulate, career_alt and  *)
(* sort_career read and write only row i+1 of every mapping, so SpecSim    *)
(* and SpecAlt follow the iteration of one type i, any of 1..N.            *)
(***************************************************************************)
EXTENDS Integers, Sequences, FiniteSets, TLC

\* ------------------------------------------------------------ parameters
\* par.J: the number of career tracks
J == 3
\* par.N, scaled down: the graduate types are 1..N
N == 2
\* the largest par.K tried
MaxK == 1
\* par.sigma as the program sets it
SIGMA == 2
\* par.c, the switching cost
par_c == 1

\* the values the standard normal draw is taken from
StdNormal == {-1, 1}

VARIABLES
    sigma,          \* par.sigma
    K,              \* par.K
    pc,             \* position of the program
    \* ---- locals of one call of career()
    eps,            \* the samples drawn by the last v1/v2/v3 call, per type
    EUv1, EUv2, EUv3,
    career, EV, noiseterm, RV,
    \* ---- simulate / career_alt / sort_career, row of type i
    i,              \* the type whose row is followed (i+1 of the outer loop)
    n,              \* the inner loop counter
    careerdict, EVdict, RVdict,
    switchdict, careerdict_alt, EVdict_alt, RVdict_alt,
    EUalt,          \* <<EUv1[i], EUv2[i], EUv3[i]>> of the last career_alt trial
    noise_alt,      \* noiseterm of the last career_alt trial, <<>> if none drawn
    v1_original, v2_original, v3_original,
    h,              \* result of count(careerdict[i])
    s,              \* results of count2 on the three sort_career lists
    \* ---- two seeded runs of simulate (SpecSeed)
    seed,           \* the seed argument of __init__: <<>> for None, <<k>> for k
    rng,            \* the state of numpy's global generator
    run,            \* the run in progress, 1 or 2
    first_run,      \* the careerdict the first run returned
    \* ---- ProductionEconomy.check_market_clearing (SpecMarket)
    p1_values, p2_values,
    at,             \* the number of (p1, p2) pairs the loops have been through
    results,
    clearing,       \* the three market-clearing locals, <<>> while unbound
    printed         \* the pairs (by position) an error line was printed for

callVars == <<eps, EUv1, EUv2, EUv3, career, EV, noiseterm, RV>>
simVars  == <<i, n, careerdict, EVdict, RVdict, h>>
altVars  == <<switchdict, careerdict_alt, EVdict_alt, RVdict_alt, EUalt,
              noise_alt, v1_original, v2_original, v3_original, s>>
seedVars == <<seed, rng, run, first_run>>
marketVars == <<p1_values, p2_values, at, results, clearing, printed>>
vars     == <<sigma, K, pc, callVars, simVars, altVars, seedVars, marketVars>>

\* ------------------------------------------------------------ arithmetic
Rat(k) == <<k, 1>>
RAdd(a, b) == <<a[1] * b[2] + b[1] * a[2], a[2] * b[2]>>
RSub(a, b) == <<a[1] * b[2] - b[1] * a[2], a[2] * b[2]>>
RMul(a, b) == <<a[1] * b[1], a[2] * b[2]>>
REq(a, b) == a[1] * b[2] = b[1] * a[2]
RLe(a, b) == a[1] * b[2] <= b[1] * a[2]
RLt(a, b) == a[1] * b[2] < b[1] * a[2]

RECURSIVE SumSeq(_)
SumSeq(q) == IF q = <<>> THEN 0 ELSE Head(q) + SumSeq(Tail(q))

\* the minimum taken in place of the maximum
np_min(q) == q[CHOOSE k \in 1..Len(q) : \A m \in 1..Len(q) : RLe(q[k], q[m])]

\* np.max of a list of numbers
np_max(q) == q[CHOOSE k \in 1..Len(q) : \A m \in 1..Len(q) : RLe(q[m], q[k])]

\* np.random.normal(loc=0, scale=scale, size=size): the possible results
Normal(scale, size) == [1..size -> {scale * z : z \in StdNormal}]

\* the draws of one v1/v2/v3 call: for each type k = 1..m, k samples
RECURSIVE DrawsUpTo(_, _)
DrawsUpTo(scale, m) ==
    IF m = 0 THEN {<<>>}
    ELSE {Append(p, e) : p \in DrawsUpTo(scale, m - 1), e \in Normal(scale, m)}

\* ------------------------------------------------------------ v1, v2, v3
\* entry of v1() for type k, from the k samples e:  1/i*(1*i + eps.sum())
v1_at(k, e) == RMul(<<1, k>>, Rat(1 * k + SumSeq(e)))
\* entry of v2() for type k:  1/i*(2*i + eps.sum())
v2_at(k, e) == RMul(<<1, k>>, Rat(2 * k + SumSeq(e)))
\* v3 with the sum left outside the division by i
v3_at_sumOutside(k, e) == RAdd(RMul(<<1, k>>, Rat(3 * k)), Rat(SumSeq(e)))
\* entry of v3() for type k:  1/i*(3*i + eps.sum())
v3_at(k, e) == RMul(<<1, k>>, Rat(3 * k + SumSeq(e)))

\* the values entry k of v1(), v2(), v3() can take
v1_values(scale, k) == {v1_at(k, e) : e \in Normal(scale, k)}
v2_values(scale, k) == {v2_at(k, e) : e \in Normal(scale, k)}
v3_values(scale, k) == {v3_at(k, e) : e \in Normal(scale, k)}

\* the lists v1(), v2(), v3() return, from the draws d (d[k]: k samples)
v1(d) == [k \in 1..N |-> v1_at(k, d[k])]
v2(d) == [k \in 1..N |-> v2_at(k, d[k])]
v3(d) == [k \in 1..N |-> v3_at(k, d[k])]

\* ------------------------------------------------------------ career
\* strict comparisons only: no track (0) when the maximum is shared
Choice_strictOnly(eu1, eu2, eu3) ==
    IF RLt(eu2, eu1) /\ RLt(eu3, eu1) THEN 1
    ELSE IF RLt(eu1, eu2) /\ RLt(eu3, eu2) THEN 2
    ELSE IF RLt(eu1, eu3) /\ RLt(eu2, eu3) THEN 3
    ELSE 0

\* the branches tested in the opposite order
Choice_lastFirst(eu1, eu2, eu3) ==
    LET choice == np_max(<<eu1, eu2, eu3>>)
    IN  IF REq(choice, eu3) THEN 3
        ELSE IF REq(choice, eu2) THEN 2
        ELSE 1

\* the if / elif / else of career(): the track appended for one type
Choice(eu1, eu2, eu3) ==
    LET choice == np_max(<<eu1, eu2, eu3>>)
    IN  IF REq(choice, eu1) THEN 1
        ELSE IF REq(choice, eu2) THEN 2
        ELSE 3

\* the value appended to EV in the branch taken
ChosenEV(eu1, eu2, eu3) ==
    LET choice == np_max(<<eu1, eu2, eu3>>)
    IN  IF REq(choice, eu1) THEN eu1
        ELSE IF REq(choice, eu2) THEN eu2
        ELSE eu3

\* the realized utility built on the expected utility
Realized_fromEV(track, eu, noise) == RAdd(eu, noise)
\* RV.append(career[i] + noiseterm[i])
Realized(track, eu, noise) == RAdd(Rat(track), noise)

\* one noise term: np.random.normal(loc=0, scale=par.sigma, size=1)[0]
NoiseTerms(scale) == {Rat(q[1]) : q \in Normal(scale, 1)}

\* ------------------------------------------------------------ SpecCareer
NoCall == /\ eps = <<>> /\ EUv1 = <<>> /\ EUv2 = <<>> /\ EUv3 = <<>>
          /\ career = <<>> /\ EV = <<>> /\ noiseterm = <<>> /\ RV = <<>>
NoSim  == /\ i = 0 /\ n = 0 /\ careerdict = <<>> /\ EVdict = <<>>
          /\ RVdict = <<>> /\ h = <<>>
NoAlt  == /\ switchdict = <<>> /\ careerdict_alt = <<>> /\ EVdict_alt = <<>>
          /\ RVdict_alt = <<>> /\ EUalt = <<>> /\ noise_alt = <<>>
          /\ v1_original = <<>> /\ v2_original = <<>> /\ v3_original = <<>>
          /\ s = <<>>

NoSeed == /\ seed = <<>> /\ rng = 0 /\ run = 0 /\ first_run = <<>>
NoMarket == /\ p1_values = <<>> /\ p2_values = <<>> /\ at = 0
            /\ results = <<>> /\ clearing = <<>> /\ printed = <<>>

\* CareerChoice.__init__, then the entry of career()
InitCareer ==
    /\ sigma \in {0, SIGMA}
    /\ K = MaxK
    /\ pc = "v1"
    /\ NoCall /\ NoSim /\ NoAlt /\ NoSeed /\ NoMarket

\* EUv1 = self.v1()
CallV1 ==
    /\ pc = "v1"
    /\ \E d \in DrawsUpTo(sigma, N) : eps' = d /\ EUv1' = v1(d)
    /\ pc' = "v2"
    /\ UNCHANGED <<seedVars, marketVars, sigma, K, EUv2, EUv3, career, EV, noiseterm, RV, simVars, altVars>>

\* EUv2 = self.v2()
CallV2 ==
    /\ pc = "v2"
    /\ \E d \in DrawsUpTo(sigma, N) : eps' = d /\ EUv2' = v2(d)
    /\ pc' = "v3"
    /\ UNCHANGED <<seedVars, marketVars, sigma, K, EUv1, EUv3, career, EV, noiseterm, RV, simVars, altVars>>

\* EUv3 = self.v3()
CallV3 ==
    /\ pc = "v3"
    /\ \E d \in DrawsUpTo(sigma, N) : eps' = d /\ EUv3' = v3(d)
    /\ pc' = "choose"
    /\ UNCHANGED <<seedVars, marketVars, sigma, K, EUv1, EUv2, career, EV, noiseterm, RV, simVars, altVars>>

\* the two loops of career(): choose per type, draw the noise, build RV
CareerLoops ==
    /\ pc = "choose"
    /\ \E nz \in [1..N -> NoiseTerms(sigma)] :
          /\ noiseterm' = nz
          /\ career' = [k \in 1..N |-> Choice(EUv1[k], EUv2[k], EUv3[k])]
          /\ EV' = [k \in 1..N |-> ChosenEV(EUv1[k], EUv2[k], EUv3[k])]
          /\ RV' = [k \in 1..N |->
                       Realized(Choice(EUv1[k], EUv2[k], EUv3[k]),
                                ChosenEV(EUv1[k], EUv2[k], EUv3[k]), nz[k])]
    /\ eps' = <<>>
    /\ pc' = "ret"
    /\ UNCHANGED <<seedVars, marketVars, sigma, K, EUv1, EUv2, EUv3, simVars, altVars>>

\* return career, EV, RV; the locals are gone and career() may be called again
CareerReturn ==
    /\ pc = "ret"
    /\ pc' = "v1"
    /\ eps' = <<>> /\ EUv1' = <<>> /\ EUv2' = <<>> /\ EUv3' = <<>>
    /\ career' = <<>> /\ EV' = <<>> /\ noiseterm' = <<>> /\ RV' = <<>>
    /\ UNCHANGED <<seedVars, marketVars, sigma, K, simVars, altVars>>

NextCareer == CallV1 \/ CallV2 \/ CallV3 \/ CareerLoops \/ CareerReturn

SpecCareer == InitCareer /\ [][NextCareer]_vars

\* ------------------------------------------------------------ claims on career()
Mean(e) == <<SumSeq(e), Len(e)>>
EUof(j, k) == IF j = 1 THEN EUv1[k] ELSE IF j = 2 THEN EUv2[k] ELSE EUv3[k]

\* C2: in career(), the chosen track of every type has an estimate equal to
\* the maximum of the three, no lower-indexed track reaches that maximum, and
\* EV holds the estimate of the chosen track.
C2_ArgmaxLowestIndex ==
    pc = "ret" =>
        \A k \in 1..N :
            /\ career[k] \in 1..J
            /\ \A j \in 1..J : RLe(EUof(j, k), EUof(career[k], k))
            /\ \A j \in 1..J : j < career[k] => RLt(EUof(j, k), EUof(career[k], k))
            /\ REq(EV[k], EUof(career[k], k))

\* a call in which two tracks tie at the maximum for some type
C2_Witness ==
    /\ pc = "ret"
    /\ \E k \in 1..N : \E j \in 1..J :
          /\ j # career[k]
          /\ REq(EUof(j, k), EUof(career[k], k))

C5_RealizedIsIndexPlusNoise ==
    pc = "ret" =>
        \A k \in 1..N : REq(RV[k], RAdd(Rat(career[k]), noiseterm[k]))

\* a call whose realized utility differs from expected utility plus noise
C5_Witness ==
    /\ pc = "ret"
    /\ \E k \in 1..N : ~REq(RV[k], RAdd(EV[k], noiseterm[k]))

\* ------------------------------------------------------------ count
\* the loop of count(): the counters <<count1, count2, count3>>
RECURSIVE count_loop(_)
count_loop(q) ==
    IF q = <<>> THEN <<0, 0, 0>>
    ELSE LET r == count_loop(Tail(q))
             element == Head(q)
         IN  IF element = 1 THEN <<r[1] + 1, r[2], r[3]>>
             ELSE IF element = 2 THEN <<r[1], r[2] + 1, r[3]>>
             ELSE <<r[1], r[2], r[3] + 1>>

\* count with the counters divided by par.K
count_byK(list) ==
    LET r == count_loop(list)
    IN  IF K = 0 THEN [err |-> TRUE, val |-> <<>>]
        ELSE [err |-> FALSE, val |-> << <<r[1], K>>, <<r[2], K>>, <<r[3], K>> >>]

\* count(list): the three proportions h = [v1, v2, v3], or the
\* ZeroDivisionError that len(list) = 0 raises
count(list) ==
    LET r == count_loop(list)
    IN  IF Len(list) = 0 THEN [err |-> TRUE, val |-> <<>>]
        ELSE [err |-> FALSE,
              val |-> << <<r[1], Len(list)>>, <<r[2], Len(list)>>,
                         <<r[3], Len(list)>> >>]

\* ------------------------------------------------------------ SpecSim
\* CareerChoice.__init__ with par.K and par.sigma as configured, then the
\* entry of simulate(): the mappings hold empty lists
InitSim ==
    /\ sigma \in {0, SIGMA}
    /\ K \in 0..MaxK
    /\ pc = "simulate"
    /\ i \in 1..N
    /\ n = 0
    /\ careerdict = <<>> /\ EVdict = <<>> /\ RVdict = <<>>
    /\ h = <<>>
    /\ NoCall /\ NoAlt /\ NoSeed /\ NoMarket

\* one pass of "while n <= par.K": a call of career(), of which entry i is
\* appended to the three mappings
SimulateTrial ==
    /\ pc = "simulate"
    /\ n <= K
    /\ \E eu1 \in v1_values(sigma, i), eu2 \in v2_values(sigma, i),
          eu3 \in v3_values(sigma, i), nz \in NoiseTerms(sigma) :
              /\ careerdict' = Append(careerdict, Choice(eu1, eu2, eu3))
              /\ EVdict' = Append(EVdict, ChosenEV(eu1, eu2, eu3))
              /\ RVdict' = Append(RVdict,
                                  Realized(Choice(eu1, eu2, eu3),
                                           ChosenEV(eu1, eu2, eu3), nz))
    /\ n' = n + 1
    /\ UNCHANGED <<seedVars, marketVars, sigma, K, pc, i, h, callVars, altVars>>

\* the while loop ends; simulate() returns careerdict, EVdict, RVdict
SimulateReturn ==
    /\ pc = "simulate"
    /\ ~(n <= K)
    /\ pc' = "count"
    /\ UNCHANGED <<seedVars, marketVars, sigma, K, callVars, simVars, altVars>>

\* count(careerdict[i])
Count ==
    /\ pc = "count"
    /\ h' = count(careerdict)
    /\ pc' = "done"
    /\ UNCHANGED <<seedVars, marketVars, sigma, K, i, n, careerdict, EVdict, RVdict, callVars, altVars>>

NextSim == SimulateTrial \/ SimulateReturn \/ Count

SpecSim == InitSim /\ [][NextSim]_vars

\* ------------------------------------------------------------ claims on simulate()
\* C1: every trial simulate records for a type stores exactly one track, one
\* of 1, 2, 3: after n trials the row holds n tracks, each in 1..J.
C1_OneTrackPerTrial ==
    pc \in {"simulate", "count", "done"} =>
        /\ Len(careerdict) = n
        /\ \A m \in 1..Len(careerdict) : careerdict[m] \in 1..J

\* simulate has recorded trials for a type above 1 with all three tracks' draws
C1_Witness ==
    /\ pc = "count"
    /\ i > 1
    /\ Len(careerdict) > 1
    /\ careerdict[1] = 1

\* C3 as stated: on return, each of the three rows holds exactly par.K entries.
C3_ExactlyKEntries ==
    pc \in {"count", "done"} =>
        /\ Len(careerdict) = K
        /\ Len(EVdict) = K
        /\ Len(RVdict) = K

\* C8: for K >= 1, count of a type's chosen tracks returns, without a
\* division error, three proportions that sum to 1.
C8_ProportionsSumToOne ==
    (pc = "done" /\ K >= 1) =>
        /\ ~h.err
        /\ REq(RAdd(RAdd(h.val[1], h.val[2]), h.val[3]), Rat(1))
        /\ h.val[1][1] + h.val[2][1] + h.val[3][1] = Len(careerdict)

\* count has run for K = 1 on a row in which two different tracks occur
C8_Witness ==
    /\ pc = "done"
    /\ K = 1
    /\ ~h.err
    /\ \E m \in 1..Len(careerdict) : careerdict[m] # careerdict[1]

\* C10 as stated, for K: with K non-positive nothing is simulated: no trial
\* is recorded and no proportion is computed.
C10_FailFast ==
    K <= 0 =>
        /\ careerdict = <<>> /\ EVdict = <<>> /\ RVdict = <<>>
        /\ h = <<>>

\* ------------------------------------------------------------ career_alt
\* the two tracks not chosen, in the order career_alt lists them in np.max
AltA(cur) == IF cur = 1 THEN 2 ELSE 1
AltB(cur) == IF cur = 1 \/ cur = 2 THEN 3 ELSE 2

\* (EUv_j[i] - par.c)
Net(eu) == RSub(eu, Rat(par_c))

\* the alternatives tested before the realized payoff
Branch_altFirst(rv, a, b) ==
    LET m == np_max(<<rv, a, b>>)
    IN  IF REq(m, a) THEN 1
        ELSE IF REq(m, b) THEN 2
        ELSE 0

\* the if / elif / else on c = np.max([RV, a, b]): 0 stay, 1 first
\* alternative, 2 second alternative
Branch(rv, a, b) ==
    LET m == np_max(<<rv, a, b>>)
    IN  IF REq(m, rv) THEN 0
        ELSE IF REq(m, a) THEN 1
        ELSE 2

\* the new payoff without the switching cost
NewRealized_noCost(track, nz) == RAdd(Rat(track), nz)
\* RVdict_alt[i+1].append(track - par.c + noiseterm[0])
NewRealized(track, nz) == RAdd(Rat(track - par_c), nz)

\* the branch that stays draws a fresh noise term for the realized payoff
AltEntries_stayRedrawn(cur, rv, eu, scale) ==
    LET a == Net(eu[AltA(cur)])
        b == Net(eu[AltB(cur)])
        br == Branch(rv, a, b)
    IN  IF br = 0
        THEN {[career |-> cur, EV |-> rv, switch |-> 0,
               RV |-> RAdd(Rat(cur), nz), noise |-> <<nz>>] :
                  nz \in NoiseTerms(scale)}
        ELSE IF br = 1
        THEN {[career |-> AltA(cur), EV |-> a, switch |-> 1,
               RV |-> NewRealized(AltA(cur), nz), noise |-> <<nz>>] :
                  nz \in NoiseTerms(scale)}
        ELSE {[career |-> AltB(cur), EV |-> b, switch |-> 1,
               RV |-> NewRealized(AltB(cur), nz), noise |-> <<nz>>] :
                  nz \in NoiseTerms(scale)}

\* what one trial of career_alt can append, with the noise term it drew (the
\* noise term is drawn only in the branches that switch)
AltEntries(cur, rv, eu, scale) ==
    LET a == Net(eu[AltA(cur)])
        b == Net(eu[AltB(cur)])
        br == Branch(rv, a, b)
    IN  IF br = 0
        THEN {[career |-> cur, EV |-> rv, switch |-> 0, RV |-> rv, noise |-> <<>>]}
        ELSE IF br = 1
        THEN {[career |-> AltA(cur), EV |-> a, switch |-> 1,
               RV |-> NewRealized(AltA(cur), nz), noise |-> <<nz>>] :
                  nz \in NoiseTerms(scale)}
        ELSE {[career |-> AltB(cur), EV |-> b, switch |-> 1,
               RV |-> NewRealized(AltB(cur), nz), noise |-> <<nz>>] :
                  nz \in NoiseTerms(scale)}

\* ------------------------------------------------------------ sort_career
\* the loop of sort_career over the first m trials of a row:
\* <<v1_original, v2_original, v3_original>>
RECURSIVE sort_loop(_, _, _)
sort_loop(cd, sd, m) ==
    IF m = 0 THEN << <<>>, <<>>, <<>> >>
    ELSE LET r == sort_loop(cd, sd, m - 1)
             flag == IF sd[m] = 1 THEN 1 ELSE 0
         IN  IF cd[m] = 1 THEN <<Append(r[1], flag), r[2], r[3]>>
             ELSE IF cd[m] = 2 THEN <<r[1], Append(r[2], flag), r[3]>>
             ELSE <<r[1], r[2], Append(r[3], flag)>>

\* ------------------------------------------------------------ count2
\* the loop of count2(): <<count0, count1>>
RECURSIVE count2_loop(_)
count2_loop(q) ==
    IF q = <<>> THEN <<0, 0>>
    ELSE LET r == count2_loop(Tail(q))
         IN  IF Head(q) = 0 THEN <<r[1] + 1, r[2]>> ELSE <<r[1], r[2] + 1>>

\* count2(list): the share count1/len(list), or the ZeroDivisionError that
\* len(list) = 0 raises
count2(list) ==
    IF Len(list) = 0 THEN [err |-> TRUE, val |-> <<>>]
    ELSE [err |-> FALSE, val |-> <<count2_loop(list)[2], Len(list)>>]

\* ------------------------------------------------------------ SpecAlt
\* what one trial of simulate can append for type k: <<track, realized>>
SimEntries(scale, k) ==
    {<<Choice(eu1, eu2, eu3),
       Realized(Choice(eu1, eu2, eu3), ChosenEV(eu1, eu2, eu3), nz)>> :
        eu1 \in v1_values(scale, k), eu2 \in v2_values(scale, k),
        eu3 \in v3_values(scale, k), nz \in NoiseTerms(scale)}

\* the entry of career_alt(careerdict, RVdict) with rows simulate() returned:
\* one entry per pass of its while loop, par.K + 1 of them
InitAlt ==
    /\ sigma \in {0, SIGMA}
    /\ K \in 0..MaxK
    /\ pc = "career_alt"
    /\ i \in 1..N
    /\ n = 0
    /\ \E row \in [1..(K + 1) -> SimEntries(sigma, i)] :
          /\ careerdict = [m \in 1..(K + 1) |-> row[m][1]]
          /\ RVdict = [m \in 1..(K + 1) |-> row[m][2]]
    /\ EVdict = <<>>
    /\ h = <<>>
    /\ NoCall /\ NoAlt /\ NoSeed /\ NoMarket

\* one pass of "for n in range(0, par.K)" for type i
CareerAltTrial ==
    /\ pc = "career_alt"
    /\ n < K
    /\ \E eu1 \in v1_values(sigma, i), eu2 \in v2_values(sigma, i),
          eu3 \in v3_values(sigma, i) :
        \E r \in AltEntries(careerdict[n + 1], RVdict[n + 1], <<eu1, eu2, eu3>>, sigma) :
              /\ EUalt' = <<eu1, eu2, eu3>>
              /\ noise_alt' = r.noise
              /\ careerdict_alt' = Append(careerdict_alt, r.career)
              /\ EVdict_alt' = Append(EVdict_alt, r.EV)
              /\ switchdict' = Append(switchdict, r.switch)
              /\ RVdict_alt' = Append(RVdict_alt, r.RV)
    /\ n' = n + 1
    /\ UNCHANGED <<seedVars, marketVars, sigma, K, pc, i, careerdict, EVdict, RVdict, h, callVars,
                   v1_original, v2_original, v3_original, s>>

\* the loop ends; career_alt returns its four mappings
CareerAltReturn ==
    /\ pc = "career_alt"
    /\ ~(n < K)
    /\ EUalt' = <<>>
    /\ noise_alt' = <<>>
    /\ pc' = "sort_career"
    /\ UNCHANGED <<seedVars, marketVars, sigma, K, simVars, callVars, switchdict, careerdict_alt,
                   EVdict_alt, RVdict_alt, v1_original, v2_original, v3_original, s>>

\* sort_career(switchdict, careerdict), row of type i
SortCareer ==
    /\ pc = "sort_career"
    /\ LET r == sort_loop(careerdict, switchdict, K)
       IN  /\ v1_original' = r[1]
           /\ v2_original' = r[2]
           /\ v3_original' = r[3]
    /\ pc' = "count2"
    /\ UNCHANGED <<seedVars, marketVars, sigma, K, simVars, callVars, switchdict, careerdict_alt,
                   EVdict_alt, RVdict_alt, EUalt, noise_alt, s>>

\* count2 on each of the three lists of type i
Count2 ==
    /\ pc = "count2"
    /\ s' = <<count2(v1_original), count2(v2_original), count2(v3_original)>>
    /\ pc' = "done"
    /\ UNCHANGED <<seedVars, marketVars, sigma, K, simVars, callVars, switchdict, careerdict_alt,
                   EVdict_alt, RVdict_alt, EUalt, noise_alt,
                   v1_original, v2_original, v3_original>>

NextAlt == CareerAltTrial \/ CareerAltReturn \/ SortCareer \/ Count2

SpecAlt == InitAlt /\ [][NextAlt]_vars

\* ------------------------------------------------------------ claims on career_alt()
\* trial n of career_alt has just run and its locals are still there
AltTrialDone == pc = "career_alt" /\ n >= 1 /\ EUalt # <<>>
NetA == Net(EUalt[AltA(careerdict[n])])
NetB == Net(EUalt[AltB(careerdict[n])])

\* C6: a trial of career_alt switches exactly when the estimate net of cost of
\* at least one non-chosen track is strictly greater than the realized
\* first-choice payoff.
C6_SwitchIffStrictlyBetter ==
    AltTrialDone =>
        /\ switchdict[n] \in {0, 1}
        /\ switchdict[n] = 1 <=> (RLt(RVdict[n], NetA) \/ RLt(RVdict[n], NetB))

\* an alternative net of cost equals the realized payoff, none is greater,
\* and the trial did not switch
C6_Witness ==
    /\ AltTrialDone
    /\ REq(RVdict[n], NetA) \/ REq(RVdict[n], NetB)
    /\ RLe(NetA, RVdict[n]) /\ RLe(NetB, RVdict[n])
    /\ switchdict[n] = 0

\* C7: when a trial switches, the new track is the non-chosen track with the
\* larger estimate net of cost, and the new realized payoff is the new track's
\* index minus the switching cost plus the freshly drawn noise term.
C7_SwitchTarget ==
    (AltTrialDone /\ switchdict[n] = 1) =>
        LET new == careerdict_alt[n]
        IN  /\ new \in {AltA(careerdict[n]), AltB(careerdict[n])}
            /\ new # careerdict[n]
            /\ RLe(NetA, Net(EUalt[new])) /\ RLe(NetB, Net(EUalt[new]))
            /\ Len(noise_alt) = 1
            /\ REq(RVdict_alt[n], RAdd(RSub(Rat(new), Rat(par_c)), noise_alt[1]))

\* a trial that switched to the second of the two alternatives
C7_Witness ==
    /\ AltTrialDone
    /\ switchdict[n] = 1
    /\ careerdict_alt[n] = AltB(careerdict[n])
    /\ RLt(NetA, NetB)

\* C9 as stated: each of the three switch rates of a type is a defined value
\* in [0, 1], whatever the simulation produced.
C9_SwitchRateDefined ==
    pc = "done" =>
        \A j \in 1..J :
            /\ ~s[j].err
            /\ RLe(Rat(0), s[j].val) /\ RLe(s[j].val, Rat(1))

\* C11: with sigma = 0 (and par.c = 1), every trial simulate records for a
\* type chose track 3, every trial of career_alt records switch indicator 0
\* and keeps track 3, and the switch rate of the graduates who chose track 3
\* is 0 once a trial has been run.
C11_NoNoiseTrack3NoSwitch ==
    sigma = 0 =>
        /\ \A m \in 1..Len(careerdict) : careerdict[m] = 3
        /\ \A m \in 1..Len(switchdict) : switchdict[m] = 0
        /\ \A m \in 1..Len(careerdict_alt) : careerdict_alt[m] = 3
        /\ (pc = "done" /\ K >= 1) => (~s[3].err /\ REq(s[3].val, Rat(0)))

\* a run without noise in which career_alt has run a trial and count2 has
\* produced the switch rate of track 3
C11_Witness ==
    /\ sigma = 0
    /\ pc = "done"
    /\ Len(switchdict) >= 1
    /\ ~s[3].err

\* C14: career_alt returns four rows of exactly par.K entries for a type; in
\* every trial the switch indicator is 0 exactly when the new track and the
\* new realized payoff are those of the first choice, and 1 exactly when the
\* new track differs from the first choice; careerdict and RVdict are left as
\* they were passed.
C14_AltConsistent ==
    /\ [](pc \in {"sort_career", "count2", "done"} =>
            /\ Len(switchdict) = K /\ Len(careerdict_alt) = K
            /\ Len(EVdict_alt) = K /\ Len(RVdict_alt) = K
            /\ \A m \in 1..K :
                  /\ switchdict[m] = 0 <=>
                        (careerdict_alt[m] = careerdict[m]
                            /\ RVdict_alt[m] = RVdict[m])
                  /\ switchdict[m] = 1 <=> careerdict_alt[m] # careerdict[m])
    /\ [][careerdict' = careerdict /\ RVdict' = RVdict]_vars

\* career_alt has returned rows in which a trial switched to another track
C14_Witness ==
    /\ pc = "sort_career"
    /\ K >= 1
    /\ \E m \in 1..K : switchdict[m] = 1 /\ careerdict_alt[m] # careerdict[m]

(***************************************************************************)
(* Two seeded runs: CareerChoice(seed) then simulate(), twice.             *)
(* numpy's global generator is a deterministic machine: np.random.seed     *)
(* puts it in a state that depends on the seed alone, and every normal     *)
(* draw reads one value off the state and advances it.  The machine below  *)
(* is a small one of that shape (RngStates states, draws in StdNormal).    *)
(***************************************************************************)
RngStates == 16
MaxSeed == 2

\* np.random.seed(k): the state the generator is put in
Seeded(k) == (7 * k + 1) % RngStates
\* the state after one draw
Step(g) == (5 * g + 3) % RngStates
\* the standard-normal value read off in state g
Out(g) == IF 2 * g >= RngStates THEN 1 ELSE -1

RECURSIVE StepN(_, _)
StepN(g, m) == IF m = 0 THEN g ELSE StepN(Step(g), m - 1)

\* np.random.normal(loc=0, scale=scale, size=size) with the generator in g
NormalFrom(g, scale, size) == [k \in 1..size |-> scale * Out(StepN(g, k - 1))]

\* __init__ that leaves the generator alone whatever the seed
Reseed_never(sd, g) == g
\* __init__:  if seed is not None: np.random.seed(seed)
Reseed(sd, g) == IF sd # <<>> THEN Seeded(sd[1]) ELSE g

\* draws made by v1() before the entry of type k:  1 + 2 + ... + (k-1)
DrawsBefore(k) == (k * (k - 1)) \div 2
\* draws made by one call of v1() (or v2(), or v3())
DrawsPerV == DrawsBefore(N + 1)
\* draws made by one call of career(): v1, v2, v3, then one noise per type
DrawsPerCareer == 3 * DrawsPerV + N

\* career() with the generator in g: the lists career, EV, RV it returns
CareerFrom(g) ==
    LET eu1 == [k \in 1..N |-> v1_at(k, NormalFrom(StepN(g, DrawsBefore(k)), sigma, k))]
        eu2 == [k \in 1..N |->
                  v2_at(k, NormalFrom(StepN(g, DrawsPerV + DrawsBefore(k)), sigma, k))]
        eu3 == [k \in 1..N |->
                  v3_at(k, NormalFrom(StepN(g, 2 * DrawsPerV + DrawsBefore(k)), sigma, k))]
        nz  == [k \in 1..N |->
                  Rat(NormalFrom(StepN(g, 3 * DrawsPerV + k - 1), sigma, 1)[1])]
    IN  [career |-> [k \in 1..N |-> Choice(eu1[k], eu2[k], eu3[k])],
         EV     |-> [k \in 1..N |-> ChosenEV(eu1[k], eu2[k], eu3[k])],
         RV     |-> [k \in 1..N |-> Realized(Choice(eu1[k], eu2[k], eu3[k]),
                                             ChosenEV(eu1[k], eu2[k], eu3[k]), nz[k])]]

\* the three mappings as simulate() creates them
EmptyDict == [k \in 1..N |-> <<>>]

\* the process before the first construction: parameters, a seed (or None),
\* and the global generator in whatever state earlier code left it
InitSeed ==
    /\ sigma \in {0, SIGMA}
    /\ K \in 0..MaxK
    /\ seed \in {<<>>} \cup {<<k>> : k \in 0..MaxSeed}
    /\ rng \in 0..(RngStates - 1)
    /\ run = 1
    /\ first_run = <<>>
    /\ pc = "init"
    /\ i = 0 /\ n = 0
    /\ careerdict = <<>> /\ EVdict = <<>> /\ RVdict = <<>>
    /\ h = <<>>
    /\ NoCall /\ NoAlt /\ NoMarket

\* CareerChoice(seed), then the entry of simulate() up to the first "n = 0"
Construct ==
    /\ pc = "init"
    /\ rng' = Reseed(seed, rng)
    /\ careerdict' = EmptyDict /\ EVdict' = EmptyDict /\ RVdict' = EmptyDict
    /\ i' = 1 /\ n' = 0
    /\ pc' = "simulate"
    /\ UNCHANGED <<seed, run, first_run, marketVars, sigma, K, h, callVars, altVars>>

\* one pass of "while n <= par.K" for type i
SeededTrial ==
    /\ pc = "simulate"
    /\ i <= N
    /\ n <= K
    /\ \E r \in {CareerFrom(rng)} :
          /\ careerdict' = [careerdict EXCEPT ![i] = Append(@, r.career[i])]
          /\ EVdict' = [EVdict EXCEPT ![i] = Append(@, r.EV[i])]
          /\ RVdict' = [RVdict EXCEPT ![i] = Append(@, r.RV[i])]
    /\ rng' = StepN(rng, DrawsPerCareer)
    /\ n' = n + 1
    /\ UNCHANGED <<seed, run, first_run, marketVars, sigma, K, pc, i, h, callVars, altVars>>

\* the while loop of type i ends; the for loop moves on with "n = 0"
SeededNextType ==
    /\ pc = "simulate"
    /\ i <= N
    /\ ~(n <= K)
    /\ i' = i + 1
    /\ n' = 0
    /\ UNCHANGED <<seedVars, marketVars, sigma, K, pc, careerdict, EVdict, RVdict, h,
                   callVars, altVars>>

\* simulate() returns; the first run's careerdict is kept and the second
\* run starts, the second run's stays in careerdict
SeededReturn ==
    /\ pc = "simulate"
    /\ i > N
    /\ IF run = 1
         THEN /\ first_run' = careerdict
              /\ run' = 2
              /\ pc' = "init"
         ELSE /\ pc' = "done"
              /\ UNCHANGED <<run, first_run>>
    /\ UNCHANGED <<seed, rng, marketVars, sigma, K, simVars, callVars, altVars>>

NextSeed == Construct \/ SeededTrial \/ SeededNextType \/ SeededReturn

SpecSeed == InitSeed /\ [][NextSeed]_vars

\* C12: when both runs were constructed with the same seed (not None) and
\* the same parameters, the careerdict simulate returns in the second run
\* equals, type by type and trial by trial, the one it returned in the first.
C12_SeededRunsAgree ==
    (pc = "done" /\ seed # <<>>) => careerdict = first_run

\* both runs are over, with a seed, under noise, and the tracks recorded for
\* some type are not all the same one
C12_Witness ==
    /\ pc = "done" /\ run = 2 /\ seed # <<>> /\ sigma = SIGMA /\ K >= 1
    /\ careerdict = first_run
    /\ \E k \in 1..N : \E a, b \in 1..Len(careerdict[k]) : careerdict[k][a] # careerdict[k][b]

(***************************************************************************)
(* ProductionEconomy.check_market_clearing(p1_values, p2_values, w)        *)
(* Whether the evaluation of a pair raises, and what np.isclose answers    *)
(* when it does not, is settled by the numerical routines; the model       *)
(* draws either outcome for every pair.                                    *)
(***************************************************************************)
MaxLen == 2
Prices == {1, 2}

\* the sequences of length at most m over S
SeqsUpTo(S, m) == UNION {[1..len -> S] : len \in 0..m}

\* the number of passes of the inner loop body
NPairs == Len(p1_values) * Len(p2_values)
\* the (p1, p2) of pass k of "for p1 in p1_values: for p2 in p2_values:"
PairAt(k) == <<p1_values[((k - 1) \div Len(p2_values)) + 1],
               p2_values[((k - 1) % Len(p2_values)) + 1]>>

InitMarket ==
    /\ p1_values \in SeqsUpTo(Prices, MaxLen)
    /\ p2_values \in SeqsUpTo(Prices, MaxLen)
    /\ at = 0
    /\ results = <<>>
    /\ clearing = <<>>
    /\ printed = <<>>
    /\ pc = "pairs"
    /\ sigma = 0 /\ K = 0
    /\ NoCall /\ NoSim /\ NoAlt /\ NoSeed

\* the try block runs to its end: the three locals are assigned and one
\* entry is appended to results
PairEvaluated ==
    /\ pc = "pairs"
    /\ at < NPairs
    /\ \E labor \in BOOLEAN, good1 \in BOOLEAN, good2 \in BOOLEAN :
          /\ clearing' = <<labor, good1, good2>>
          /\ results' = Append(results,
                               [p1 |-> PairAt(at + 1)[1], p2 |-> PairAt(at + 1)[2],
                                labor_market_clearing |-> labor,
                                good1_market_clearing |-> good1,
                                good2_market_clearing |-> good2])
    /\ at' = at + 1
    /\ UNCHANGED <<p1_values, p2_values, printed, seedVars, sigma, K, pc,
                   callVars, simVars, altVars>>

\* consumer_behavior, firm1 or firm2 raises: "except Exception" prints the
\* error line and continues with the next pair
PairRaises ==
    /\ pc = "pairs"
    /\ at < NPairs
    /\ printed' = Append(printed, at + 1)
    /\ at' = at + 1
    /\ UNCHANGED <<p1_values, p2_values, results, clearing, seedVars, sigma, K, pc,
                   callVars, simVars, altVars>>

\* after the loops: "if labor_market_clearing and ...", which reads locals
\* that are bound only once a try block has run to its end, then
\* "return results"
AfterLoops ==
    /\ pc = "pairs"
    /\ at = NPairs
    /\ pc' = IF clearing = <<>> THEN "raised" ELSE "returned"
    /\ UNCHANGED <<marketVars, seedVars, sigma, K, callVars, simVars, altVars>>

NextMarket == PairEvaluated \/ PairRaises \/ AfterLoops

SpecMarket == InitMarket /\ [][NextMarket]_vars

\* the pairs among the first k that did not raise, in iteration order
RECURSIVE KeptPairs(_)
KeptPairs(k) ==
    IF k = 0 THEN <<>>
    ELSE IF \E m \in 1..Len(printed) : printed[m] = k THEN KeptPairs(k - 1)
    ELSE Append(KeptPairs(k - 1), PairAt(k))

\* C13: check_market_clearing never ends by raising, whatever the input
\* lists and whichever pairs raise, and results holds exactly one entry, in
\* iteration order, for each pair gone through that did not raise.
C13_BestEffortCompletes ==
    /\ pc # "raised"
    /\ Len(results) = Len(KeptPairs(at))
    /\ \A m \in 1..Len(results) : <<results[m].p1, results[m].p2>> = KeptPairs(at)[m]

====
